---- MODULE Spec2Model ----
(***************************************************************************)
(* Model of errors.py: the class Value (a value with an associated error,  *)
(* its property setters, its arithmetic, comparison and weighted-mean      *)
(* operators) and the module functions chi_squared and chi_squared_dof.    *)
(*                                                                         *)
(* Numbers.  The code computes with Python ints and floats and, when the   *)
(* import of numpy succeeds, with numpy scalars and arrays.  The model     *)
(* computes over the exact reals: a finite number is sg * sqrt(n / d) with *)
(* n / d a fraction in lowest terms, which is closed under the products,   *)
(* quotients, squares and square roots of sums of squares the code forms.  *)
(* Floating-point rounding is therefore outside the model.  Each number    *)
(* keeps the type the code would give it ("int", "float" for Python,       *)
(* "i64", "f64" for numpy), because the type decides whether a division by *)
(* zero raises ZeroDivisionError or yields inf / nan.                      *)
(***************************************************************************)
EXTENDS Integers, Sequences, FiniteSets, TLC

\* ------------------------------------------------------------------ bounds
\* Largest integer a caller passes: as a scalar value or error, as a constant
\* operand, as an element of an array.
MaxInt == 1
\* Longest array a caller passes.
MaxLen == 2

\* ----------------------------------------------------------------- numbers
RECURSIVE GCD(_, _)
GCD(a, b) == IF b = 0 THEN a ELSE GCD(b, a % b)

RECURSIVE RootFrom(_, _)
RootFrom(m, k) == IF k * k >= m THEN k ELSE RootFrom(m, k + 1)
\* The integer square root of a perfect square m, else the next integer up.
Root(m) == RootFrom(m, 0)
IsSquare(m) == Root(m) * Root(m) = m

NpType(ty) == ty \in {"i64", "f64"}
IntType(ty) == ty \in {"int", "i64"}
\* Result type of + - * (int stays int, numpy wins over Python).
ArithType(a, b) ==
    IF NpType(a) \/ NpType(b)
    THEN (IF IntType(a) /\ IntType(b) THEN "i64" ELSE "f64")
    ELSE (IF IntType(a) /\ IntType(b) THEN "int" ELSE "float")
\* Result type of true division and of sqrt / log.
FloatType(a, b) == IF NpType(a) \/ NpType(b) THEN "f64" ELSE "float"

Sign(i) == IF i > 0 THEN 1 ELSE IF i < 0 THEN 0 - 1 ELSE 0

\* sg * sqrt(n / d), normalised.
Fin(sg, n, d, ty) ==
    IF n = 0 \/ sg = 0
    THEN [t |-> "fin", sg |-> 0, n |-> 0, d |-> 1, ty |-> ty, x |-> << >>]
    ELSE LET g == GCD(n, d)
         IN  [t |-> "fin", sg |-> sg, n |-> n \div g, d |-> d \div g,
              ty |-> ty, x |-> << >>]
Inf(sg, ty) == [t |-> "inf", sg |-> sg, n |-> 0, d |-> 1, ty |-> ty, x |-> << >>]
NaN(ty) == [t |-> "nan", sg |-> 0, n |-> 0, d |-> 1, ty |-> ty, x |-> << >>]
\* A finite real outside the sg * sqrt(n / d) form (a logarithm, or a sum with
\* one): kept as its sign and the expression that produced it.
Sym(sg, ty, x) == [t |-> "sym", sg |-> sg, n |-> 0, d |-> 1, ty |-> ty, x |-> x]
Code(a) == << (CASE a.t = "fin" -> 0 [] a.t = "inf" -> 1 [] a.t = "nan" -> 2
                 [] OTHER -> 3), a.sg, a.n, a.d >> \o a.x
SymOf(op, sg, ty, a, b) == Sym(sg, ty, << op >> \o Code(a) \o Code(b))

\* The Python int i.
PyInt(i) == Fin(Sign(i), i * i, 1, "int")
\* The element i of an integer numpy array.
NpInt(i) == Fin(Sign(i), i * i, 1, "i64")

IsZero(a) == a.t = "fin" /\ a.sg = 0
IsRational(a) == a.t = "fin" /\ IsSquare(a.n) /\ IsSquare(a.d)
\* Numerator and denominator of a rational number.
Numer(a) == a.sg * Root(a.n)
Denom(a) == Root(a.d)
Rat(p, q, ty) == Fin(Sign(p) * Sign(q), p * p, q * q, ty)

\* a == b on two numbers (types are not compared; nan equals nothing).
NumEq(a, b) ==
    /\ a.t # "nan" /\ b.t # "nan"
    /\ a.t = b.t /\ a.sg = b.sg /\ a.n = b.n /\ a.d = b.d /\ a.x = b.x
\* a < 0.
NumNeg(a) == a.t # "nan" /\ a.sg < 0

NNeg(a) == [a EXCEPT !.sg = 0 - a.sg]

NMulT(a, b, ty) ==
    CASE a.t = "nan" \/ b.t = "nan" -> NaN(ty)
      [] a.t = "inf" \/ b.t = "inf" ->
            IF IsZero(a) \/ IsZero(b) THEN NaN(ty) ELSE Inf(a.sg * b.sg, ty)
      [] a.t = "sym" \/ b.t = "sym" ->
            IF IsZero(a) \/ IsZero(b) THEN Fin(0, 0, 1, ty)
            ELSE SymOf(3, a.sg * b.sg, ty, a, b)
      [] OTHER -> Fin(a.sg * b.sg, a.n * b.n, a.d * b.d, ty)
NMul(a, b) == NMulT(a, b, ArithType(a.ty, b.ty))

\* a / b where no ZeroDivisionError is raised (numpy semantics for b = 0).
NDiv(a, b) ==
    LET ty == FloatType(a.ty, b.ty)
    IN  CASE a.t = "nan" \/ b.t = "nan" -> NaN(ty)
          [] a.t = "inf" -> IF b.t = "inf" THEN NaN(ty)
                            ELSE Inf(a.sg * (IF b.sg < 0 THEN 0 - 1 ELSE 1), ty)
          [] b.t = "inf" -> Fin(0, 0, 1, ty)
          [] IsZero(b) -> IF IsZero(a) THEN NaN(ty) ELSE Inf(a.sg, ty)
          [] a.t = "sym" \/ b.t = "sym" ->
                IF IsZero(a) THEN Fin(0, 0, 1, ty)
                ELSE SymOf(4, a.sg * b.sg, ty, a, b)
          [] OTHER -> Fin(a.sg * b.sg, a.n * b.d, a.d * b.n, ty)

NAdd(a, b) ==
    LET ty == ArithType(a.ty, b.ty)
    IN  CASE a.t = "nan" \/ b.t = "nan" -> NaN(ty)
          [] a.t = "inf" /\ b.t = "inf" ->
                IF a.sg = b.sg THEN Inf(a.sg, ty) ELSE NaN(ty)
          [] a.t = "inf" -> Inf(a.sg, ty)
          [] b.t = "inf" -> Inf(b.sg, ty)
          [] IsZero(a) -> [b EXCEPT !.ty = ty]
          [] IsZero(b) -> [a EXCEPT !.ty = ty]
          [] IsRational(a) /\ IsRational(b) ->
                Rat(Numer(a) * Denom(b) + Numer(b) * Denom(a),
                    Denom(a) * Denom(b), ty)
          [] OTHER ->
                SymOf(1, IF a.sg = b.sg THEN a.sg ELSE 2, ty, a, b)

\* a ** 2.
NSqr(a) ==
    LET ty == a.ty
    IN  CASE a.t = "nan" -> NaN(ty)
          [] a.t = "inf" -> Inf(1, ty)
          [] a.t = "sym" -> SymOf(5, 1, ty, a, a)
          [] OTHER -> Fin(a.sg * a.sg, a.n * a.n, a.d * a.d, ty)

\* sqrt(a) for a >= 0 (a is a sum of squares or a reciprocal of one).
NSqrt(a, ty) ==
    CASE a.t = "nan" -> NaN(ty)
      [] a.t = "inf" -> Inf(1, ty)
      [] a.t = "sym" -> SymOf(6, 1, ty, a, a)
      [] IsRational(a) -> Fin(a.sg, Root(a.n), Root(a.d), ty)
      [] OTHER -> SymOf(6, 1, ty, a, a)

\* ------------------------------------------------------------------ values
\* What a Python expression evaluates to: a scalar number, a numpy array of
\* numbers, or a raised exception.
Scalar(s) == [k |-> "num", s |-> s, a |-> << >>, exc |-> ""]
Array(a) == [k |-> "arr", s |-> PyInt(0), a |-> a, exc |-> ""]
Raise(exc) == [k |-> "raise", s |-> PyInt(0), a |-> << >>, exc |-> exc]

\* Python raises on a division by zero unless a numpy number is involved.
DivExc(a, b) ==
    IF IsZero(b) /\ ~NpType(a.ty) /\ ~NpType(b.ty) THEN "ZeroDivisionError"
    ELSE ""

RECURSIVE IPow(_, _)
IPow(b, k) == IF k = 0 THEN 1 ELSE b * IPow(b, k - 1)
IsInteger(a) == IsRational(a) /\ Denom(a) = 1

\* a ** b.  Python: 0 to a negative power raises ZeroDivisionError; numpy:
\* an integer to a negative integer power raises ValueError.
PowExc(a, b) ==
    IF ~(a.t = "fin" /\ IsInteger(b)) THEN ""
    ELSE IF Numer(b) >= 0 THEN ""
    ELSE IF NpType(a.ty) \/ NpType(b.ty)
    THEN (IF IntType(a.ty) /\ IntType(b.ty) THEN "ValueError" ELSE "")
    ELSE (IF IsZero(a) THEN "ZeroDivisionError" ELSE "")
NPow(a, b) ==
    IF ~(a.t = "fin" /\ IsInteger(b))
    THEN SymOf(8, 2, FloatType(a.ty, b.ty), a, b)
    ELSE LET e == Numer(b)
             k == IF e < 0 THEN 0 - e ELSE e
             sg == IF k % 2 = 0 THEN a.sg * a.sg ELSE a.sg
             ty == IF IntType(a.ty) /\ IntType(b.ty) /\ e >= 0
                   THEN ArithType(a.ty, b.ty) ELSE FloatType(a.ty, b.ty)
         IN  IF e = 0 THEN Fin(1, 1, 1, ty)
             ELSE IF e > 0 THEN Fin(sg, IPow(a.n, k), IPow(a.d, k), ty)
             ELSE IF IsZero(a) THEN Inf(1, ty)
             ELSE Fin(sg, IPow(a.d, k), IPow(a.n, k), ty)

\* math.sqrt of a number: numpy.sqrt when numpy was imported (nan for a
\* negative number), else the standard library's (ValueError for one).
MathSqrt(np, a) ==
    LET ty == IF np \/ NpType(a.ty) THEN "f64" ELSE "float"
    IN  IF NumNeg(a) THEN NaN(ty) ELSE NSqrt(a, ty)
MathSqrtExc(np, a) == IF ~np /\ NumNeg(a) THEN "ValueError" ELSE ""

\* math.log of a number: numpy.log (nan below zero, -inf at zero) or the
\* standard library's (ValueError at or below zero).
MathLog(np, a) ==
    LET ty == IF np \/ NpType(a.ty) THEN "f64" ELSE "float"
    IN  CASE a.t = "nan" -> NaN(ty)
          [] a.t = "inf" -> IF a.sg > 0 THEN Inf(1, ty) ELSE NaN(ty)
          [] a.t = "sym" -> SymOf(7, 2, ty, a, a)
          [] a.sg < 0 -> NaN(ty)
          [] a.sg = 0 -> Inf(0 - 1, ty)
          [] a.n = a.d -> Fin(0, 0, 1, ty)
          [] OTHER -> SymOf(7, IF a.n > a.d THEN 1 ELSE 0 - 1, ty, a, a)
MathLogExc(np, a) ==
    IF ~np /\ a.t = "fin" /\ a.sg <= 0 THEN "ValueError" ELSE ""

\* The binary operation op on two numbers: the exception it raises ("" for
\* none) and its result.
Binary(op, a, b) ==
    CASE op = "+" -> [exc |-> "", v |-> NAdd(a, b)]
      [] op = "-" -> [exc |-> "", v |-> NAdd(a, NNeg(b))]
      [] op = "*" -> [exc |-> "", v |-> NMul(a, b)]
      [] op = "/" -> [exc |-> DivExc(a, b), v |-> NDiv(a, b)]
      [] op = "**" -> [exc |-> PowExc(a, b), v |-> NPow(a, b)]

\* The unary operation op on a number: the exception it raises and its result.
Unary(op, np, a) ==
    CASE op = "neg" -> [exc |-> "", v |-> NNeg(a)]
      [] op = "sqr" -> [exc |-> "", v |-> NSqr(a)]
      [] op = "sqrt" -> [exc |-> MathSqrtExc(np, a), v |-> MathSqrt(np, a)]
      [] op = "log" -> [exc |-> MathLogExc(np, a), v |-> MathLog(np, a)]

\* The shape of the result of broadcasting two arrays, 0 - 1 if none.
BroadcastLen(m, n) ==
    IF m = n THEN m ELSE IF m = 1 THEN n ELSE IF n = 1 THEN m ELSE 0 - 1

\* The elements of an operand: those of an array, or the one scalar.
Elements(a) == IF a.k = "arr" THEN a.a ELSE << a.s >>
\* Element i of an operand broadcast to a longer shape.
Element(e, i) == IF Len(e) = 1 THEN e[1] ELSE e[i]

\* What elementwise results make: the first exception among them, else a
\* scalar for scalar operands, else an array.
Collect(r, scalar) ==
    LET bad == {i \in 1..Len(r) : r[i].exc # ""}
    IN  IF bad # {} THEN Raise(r[CHOOSE i \in bad : \A j \in bad : i <= j].exc)
        ELSE IF scalar THEN Scalar(r[1].v)
        ELSE Array([i \in 1..Len(r) |-> r[i].v])

\* A binary arithmetic operation on scalars and arrays: elementwise with
\* broadcasting (ValueError for shapes that do not broadcast); an operand that
\* already raised propagates, the left one first.
Lift2(op, a, b) ==
    CASE a.k = "raise" -> a
      [] b.k = "raise" -> b
      [] BroadcastLen(Len(Elements(a)), Len(Elements(b))) < 0 -> Raise("ValueError")
      [] OTHER ->
            Collect([i \in 1..BroadcastLen(Len(Elements(a)), Len(Elements(b))) |->
                        Binary(op, Element(Elements(a), i), Element(Elements(b), i))],
                    a.k = "num" /\ b.k = "num")

\* A unary operation on a scalar or on every element of an array.
Lift1(op, np, a) ==
    IF a.k = "raise" THEN a
    ELSE Collect([i \in 1..Len(Elements(a)) |-> Unary(op, np, Elements(a)[i])],
                 a.k = "num")

VAdd(a, b) == Lift2("+", a, b)
VSub(a, b) == Lift2("-", a, b)
VMul(a, b) == Lift2("*", a, b)
VDiv(a, b) == Lift2("/", a, b)
VPow(a, b) == Lift2("**", a, b)
VNeg(a) == Lift1("neg", FALSE, a)
VSqr(a) == Lift1("sqr", FALSE, a)
VSqrt(np, a) == Lift1("sqrt", np, a)
VLog(np, a) == Lift1("log", np, a)

\* The literals of the code.
Lit(i) == Scalar(PyInt(i))

\* -------------------------------------------------------------- class Value
\* A Value object: the fields __init__ sets.
Obj(is_array, value, error, percent_error) ==
    [is_array |-> is_array, value |-> value, error |-> error,
     percent_error |-> percent_error]
NoObj == Obj(FALSE, Lit(0), Lit(0), Lit(0))

\* The outcome of a call: a new Value ("value"), a number or array ("num"),
\* a truth value ("bool"), nothing ("none", a setter) or an exception ("raise").
RetValue(obj) == [k |-> "value", exc |-> "", obj |-> obj, res |-> Lit(0), b |-> FALSE]
RetNum(v) == [k |-> "num", exc |-> "", obj |-> NoObj, res |-> v, b |-> FALSE]
RetBool(b) == [k |-> "bool", exc |-> "", obj |-> NoObj, res |-> Lit(0), b |-> b]
RetNone == [k |-> "none", exc |-> "", obj |-> NoObj, res |-> Lit(0), b |-> FALSE]
Raised(exc) == [k |-> "raise", exc |-> exc, obj |-> NoObj, res |-> Lit(0), b |-> FALSE]

\* Value.__do_percent
do_percent(error, value) == VMul(VDiv(error, value), Lit(100))

\* Value.__init__(value, error).  np: the import of numpy succeeded, so that
\* math.ndarray exists; without it the attribute lookup raises AttributeError
\* and the Value is a scalar one.
\* The end of __init__: the caller gets the object, with the fields stored,
\* if __do_percent returned.
Store(is_array, value, error, pc) ==
    IF pc.k = "raise" THEN Raised(pc.exc)
    ELSE RetValue(Obj(is_array, value, error, pc))
Value(np, value, error) ==
    CASE value.k = "raise" -> Raised(value.exc)
      [] error.k = "raise" -> Raised(error.exc)
      [] np /\ value.k = "arr" /\ error.k # "arr" -> Raised("Exception")
      [] np /\ value.k = "arr" /\ Len(value.a) # Len(error.a) -> Raised("Exception")
      [] OTHER -> Store(np /\ value.k = "arr", value, error, do_percent(error, value))

\* The end of a setter: the new field is stored already; percent_error is
\* assigned if __do_percent returned.
Refresh(stored, pc) ==
    IF pc.k = "raise" THEN [obj |-> stored, out |-> Raised(pc.exc)]
    ELSE [obj |-> [stored EXCEPT !.percent_error = pc], out |-> RetNone]

\* The value setter without its assertion on the lengths.
value_setter_unchecked(self, new_value) ==
    Refresh([self EXCEPT !.value = new_value], do_percent(self.error, new_value))

\* The value setter: the object after the call and the call's outcome.
value_setter(self, new_value) ==
    IF self.is_array /\ new_value.k # "arr"
    THEN [obj |-> self, out |-> Raised("TypeError")]
    ELSE IF self.is_array /\ Len(new_value.a) # Len(self.error.a)
    THEN [obj |-> self, out |-> Raised("AssertionError")]
    ELSE Refresh([self EXCEPT !.value = new_value],
                 do_percent(self.error, new_value))

\* The error setter.
error_setter(self, new_error) ==
    IF self.is_array /\ new_error.k # "arr"
    THEN [obj |-> self, out |-> Raised("TypeError")]
    ELSE IF self.is_array /\ Len(new_error.a) # Len(self.value.a)
    THEN [obj |-> self, out |-> Raised("AssertionError")]
    ELSE Refresh([self EXCEPT !.error = new_error],
                 do_percent(new_error, self.value))

\* The other operand of a binary operator: a Value, or a plain number, whose
\* lookup of .value raises the AttributeError the operators catch.
ValueOperand(obj) == [isValue |-> TRUE, obj |-> obj, c |-> Lit(0)]
Constant(c) == [isValue |-> FALSE, obj |-> NoObj, c |-> c]

\* sqrt(a ** 2 + b ** 2)
Quadrature(np, a, b) == VSqrt(np, VAdd(VSqr(a), VSqr(b)))

\* Value.__add__
add(np, self, other) ==
    IF other.isValue
    THEN Value(np, VAdd(self.value, other.obj.value),
               Quadrature(np, self.error, other.obj.error))
    ELSE Value(np, VAdd(other.c, self.value), self.error)

\* __radd__ subtracting the constant, as __sub__ does.
radd_subtracting(np, self, other) ==
    IF other.isValue
    THEN Value(np, VAdd(self.value, other.obj.value),
               Quadrature(np, self.error, other.obj.error))
    ELSE Value(np, VSub(other.c, self.value), self.error)

\* Value.__radd__
radd(np, self, other) ==
    IF other.isValue
    THEN Value(np, VAdd(self.value, other.obj.value),
               Quadrature(np, self.error, other.obj.error))
    ELSE Value(np, VAdd(other.c, self.value), self.error)

\* Value.__sub__
sub(np, self, other) ==
    IF other.isValue
    THEN Value(np, VSub(self.value, other.obj.value),
               Quadrature(np, self.error, other.obj.error))
    ELSE Value(np, VSub(self.value, other.c), self.error)

\* Value.__mul__
mul(np, self, other) ==
    IF other.isValue
    THEN LET new_value == VMul(self.value, other.obj.value)
         IN  Value(np, new_value,
                   VMul(new_value,
                        Quadrature(np, VDiv(self.error, self.value),
                                   VDiv(other.obj.error, other.obj.value))))
    ELSE Value(np, VMul(self.value, other.c), VMul(self.error, other.c))

\* Value.__rmul__
rmul(np, self, other) ==
    IF other.isValue
    THEN LET new_value == VMul(self.value, other.obj.value)
         IN  Value(np, new_value,
                   VMul(new_value,
                        Quadrature(np, VDiv(self.error, self.value),
                                   VDiv(other.obj.error, other.obj.value))))
    ELSE Value(np, VMul(self.value, other.c), VMul(self.error, other.c))

\* Value.__truediv__
truediv(np, self, other) ==
    IF other.isValue
    THEN LET new_value == VDiv(self.value, other.obj.value)
         IN  Value(np, new_value,
                   VMul(new_value,
                        Quadrature(np, VDiv(self.error, self.value),
                                   VDiv(other.obj.error, other.obj.value))))
    ELSE Value(np, VDiv(self.value, other.c), VDiv(self.error, other.c))

\* Value.__floordiv__
floordiv(np, self, other) == truediv(np, self, other)

\* Value.__div__
div(np, self, other) == truediv(np, self, other)

\* Value.__neg__
neg(np, self) == Value(np, VNeg(self.value), self.error)

\* Value.__pos__
pos(np, self) == Value(np, self.value, self.error)

\* The result of a comparison: a truth value, a numpy array of truth values, or
\* an exception.
CmpBool(b) == [k |-> "bool", b |-> b, a |-> << >>]
CmpArray(a) == [k |-> "arr", b |-> FALSE, a |-> a]
CmpRaise == [k |-> "raise", b |-> FALSE, a |-> << >>]

\* a == b.  Two arrays whose shapes do not broadcast: numpy before 1.25 answers
\* False, later versions raise ValueError (strictEq).
VEq(a, b, strictEq) ==
    IF a.k = "num" /\ b.k = "num" THEN CmpBool(NumEq(a.s, b.s))
    ELSE LET m == IF a.k = "arr" THEN Len(a.a) ELSE 1
             n == IF b.k = "arr" THEN Len(b.a) ELSE 1
             len == BroadcastLen(m, n)
             ea(i) == IF a.k = "num" THEN a.s
                      ELSE IF m = 1 THEN a.a[1] ELSE a.a[i]
             eb(i) == IF b.k = "num" THEN b.s
                      ELSE IF n = 1 THEN b.a[1] ELSE b.a[i]
         IN  IF len < 0
             THEN (IF strictEq THEN CmpRaise ELSE CmpBool(FALSE))
             ELSE CmpArray([i \in 1..len |-> NumEq(ea(i), eb(i))])

\* a < 0
VLt0(a) ==
    IF a.k = "num" THEN CmpBool(NumNeg(a.s))
    ELSE CmpArray([i \in 1..Len(a.a) |-> NumNeg(a.a[i])])

\* bool(c), as `and` and `if` apply it: an array of two or more elements has
\* no truth value (ValueError).  (Callers pass no empty array.)
Truth(c) ==
    CASE c.k = "raise" -> "raise"
      [] c.k = "bool" -> IF c.b THEN "true" ELSE "false"
      [] Len(c.a) = 1 -> IF c.a[1] THEN "true" ELSE "false"
      [] OTHER -> "raise"

\* A comparison result as the outcome of a call.
RetCmp(c) ==
    CASE c.k = "raise" -> Raised("ValueError")
      [] c.k = "bool" -> RetBool(c.b)
      [] Len(c.a) = 1 -> RetBool(c.a[1])
      [] OTHER -> RetNum(Array([i \in 1..Len(c.a) |->
                                   NpInt(IF c.a[i] THEN 1 ELSE 0)]))

\* Value.__abs__
abs(np, self) ==
    LET t == Truth(VLt0(self.value))
    IN  IF t = "raise" THEN Raised("ValueError")
        ELSE IF t = "true" THEN Value(np, VNeg(self.value), self.error)
        ELSE Value(np, self.value, self.error)

\* Value.__pow__
pow(np, self, other) ==
    IF other.isValue
    THEN LET ov == other.obj.value
             new_value == VPow(self.value, ov)
         IN  Value(np, new_value,
                   VSqrt(np,
                     VAdd(VSqr(VMul(VMul(ov, VPow(self.value, VSub(ov, Lit(1)))),
                                    self.error)),
                          VSqr(VMul(VMul(new_value, VLog(np, self.value)),
                                    other.obj.error)))))
    ELSE LET new_value == VPow(self.value, other.c)
         IN  Value(np, new_value,
                   VDiv(VMul(VMul(new_value, self.error), other.c), self.value))

\* Value.__eq__
eq(self, other, strictEq) ==
    IF ~other.isValue THEN Raised("AttributeError")
    ELSE LET c1 == VEq(self.value, other.obj.value, strictEq)
             t1 == Truth(c1)
         IN  IF t1 = "raise" THEN Raised("ValueError")
             ELSE IF t1 = "false" THEN RetCmp(c1)
             ELSE RetCmp(VEq(self.error, other.obj.error, strictEq))

\* Value.__and__
and(np, self, other) ==
    LET self_wgt == VDiv(Lit(1), VSqr(self.error))
        other_wgt == IF other.isValue THEN VDiv(Lit(1), VSqr(other.obj.error))
                     ELSE Raise("AttributeError")
        wgt_sum == VAdd(self_wgt, other_wgt)
        new_value == VDiv(VAdd(VMul(self_wgt, self.value),
                               VMul(other_wgt, other.obj.value)), wgt_sum)
        new_error == VSqrt(np, VDiv(Lit(1), wgt_sum))
    IN  Value(np, new_value, new_error)

\* The builtin sum over an iterable of numbers, from the int 0.
RECURSIVE SumFrom(_, _, _)
SumFrom(a, i, acc) == IF i > Len(a) THEN acc ELSE SumFrom(a, i + 1, NAdd(acc, a[i]))
sum(v) ==
    CASE v.k = "raise" -> v
      [] v.k = "num" -> Raise("TypeError")
      [] OTHER -> Scalar(SumFrom(v.a, 1, PyInt(0)))

\* chi_squared(value1, value2)
Residuals(ratio) ==
    IF ratio.k = "raise" THEN Raise(ratio.exc)
    ELSE sum(VDiv(VSqr(VSub(Lit(1), ratio.obj.value)), VSqr(ratio.obj.error)))
chi_squared(np, value1, value2) ==
    Residuals(truediv(np, value1, ValueOperand(value2)))

\* chi_squared_dof(value1, value2)
chi_squared_dof(np, value1, value2) ==
    LET chisq == chi_squared(np, value1, value2)
        dof == IF value1.is_array THEN Lit(Len(value1.value.a))
               ELSE Scalar(Fin(1, 1, 1, "float"))
    IN  VDiv(chisq, dof)

\* ------------------------------------------------------------ the program
\* numpy: whether `import numpy as math` succeeded (else math is the standard
\*        library's module and there are no arrays).
\* heap:  the Value objects the caller holds, by variable.
\* last:  the call in progress: the operation, its operands, its outcome and
\*        the identity of the object it returned (0: an object not held
\*        before the call).
VARIABLES numpy, heap, last
vars == << numpy, heap, last >>

\* The caller's variables x and y: no operation takes more than two Values.
Ids == {1, 2}
Live == {i \in Ids : heap[i].live}

\* The numbers a caller passes: Python ints.
Scalars == {Lit(i) : i \in (0 - 1)..MaxInt}
\* The arrays a caller passes: non-empty integer numpy arrays, when numpy is
\* there.
Seqs == UNION {[1..n -> {NpInt(e) : e \in 0..MaxInt}] : n \in 1..MaxLen}
Arrays == IF numpy THEN {Array(a) : a \in Seqs} ELSE {}

Idle ==
    [op |-> "idle", self |-> 0, oid |-> 0, a1 |-> Lit(0), a2 |-> Lit(0),
     out |-> RetNone, ref |-> 0]
Call(op, self, oid, a1, a2, out, ref) ==
    [op |-> op, self |-> self, oid |-> oid, a1 |-> a1, a2 |-> a2,
     out |-> out, ref |-> ref]

Init ==
    /\ numpy \in BOOLEAN
    /\ heap = [i \in Ids |-> [live |-> FALSE, obj |-> NoObj]]
    /\ last = Idle

\* x_i = Value(value, error)
Construct(i, value, error) ==
    /\ last.op = "idle"
    /\ LET r == Value(numpy, value, error)
       IN  /\ heap' = IF r.k = "value"
                      THEN [heap EXCEPT ![i] = [live |-> TRUE, obj |-> r.obj]]
                      ELSE heap
           /\ last' = Call("init", i, 0, value, error, r, 0)
    /\ UNCHANGED numpy

\* x_i.value = new_value
SetValue(i, new_value) ==
    /\ last.op = "idle"
    /\ heap[i].live
    /\ LET r == value_setter(heap[i].obj, new_value)
       IN  /\ heap' = [heap EXCEPT ![i].obj = r.obj]
           /\ last' = Call("set_value", i, 0, new_value, Lit(0), r.out, 0)
    /\ UNCHANGED numpy

\* x_i.error = new_error
SetError(i, new_error) ==
    /\ last.op = "idle"
    /\ heap[i].live
    /\ LET r == error_setter(heap[i].obj, new_error)
       IN  /\ heap' = [heap EXCEPT ![i].obj = r.obj]
           /\ last' = Call("set_error", i, 0, new_error, Lit(0), r.out, 0)
    /\ UNCHANGED numpy

\* What a setter is given: a number, or an array for an array Value.
SetterInputs(i) == Scalars \cup (IF heap[i].obj.is_array THEN Arrays ELSE {})

\* The operands a caller gives a binary operator: a held Value or a number.
Operands ==
    {[isValue |-> TRUE, id |-> j, c |-> Lit(0)] : j \in Live}
    \cup {[isValue |-> FALSE, id |-> 0, c |-> c] : c \in Scalars}
Resolve(o) == IF o.isValue THEN ValueOperand(heap[o.id].obj) ELSE Constant(o.c)

\* An operator that works in place: it stores its result in self and returns
\* self.
OperatorCallInPlace(op, i, o, out) ==
    /\ last.op = "idle"
    /\ last' = Call(op, i, o.id, o.c, Lit(0), out, IF out.k = "value" THEN i ELSE 0)
    /\ heap' = IF out.k = "value" THEN [heap EXCEPT ![i].obj = out.obj] ELSE heap
    /\ UNCHANGED numpy

\* A call of an operator or function on x_i: it assigns no field of any
\* object, and what it returns was built by Value(...).
OperatorCall(op, i, o, out) ==
    /\ last.op = "idle"
    /\ last' = Call(op, i, o.id, o.c, Lit(0), out, 0)
    /\ UNCHANGED << numpy, heap >>

NoOperand == [isValue |-> FALSE, id |-> 0, c |-> Lit(0)]

Add == \E i \in Live, o \in Operands :
    OperatorCall("add", i, o, add(numpy, heap[i].obj, Resolve(o)))
\* c + x_i (Python calls __radd__ when the left operand is a plain number)
RAdd == \E i \in Live, c \in Scalars :
    OperatorCall("radd", i, [isValue |-> FALSE, id |-> 0, c |-> c],
                 radd(numpy, heap[i].obj, Constant(c)))
Sub == \E i \in Live, o \in Operands :
    OperatorCall("sub", i, o, sub(numpy, heap[i].obj, Resolve(o)))
Mul == \E i \in Live, o \in Operands :
    OperatorCall("mul", i, o, mul(numpy, heap[i].obj, Resolve(o)))
RMul == \E i \in Live, c \in Scalars :
    OperatorCall("rmul", i, [isValue |-> FALSE, id |-> 0, c |-> c],
                 rmul(numpy, heap[i].obj, Constant(c)))
TrueDiv == \E i \in Live, o \in Operands :
    OperatorCall("truediv", i, o, truediv(numpy, heap[i].obj, Resolve(o)))
FloorDiv == \E i \in Live, o \in Operands :
    OperatorCall("floordiv", i, o, floordiv(numpy, heap[i].obj, Resolve(o)))
Pow == \E i \in Live, o \in Operands :
    OperatorCall("pow", i, o, pow(numpy, heap[i].obj, Resolve(o)))
Neg == \E i \in Live :
    OperatorCall("neg", i, NoOperand, neg(numpy, heap[i].obj))
Pos == \E i \in Live :
    OperatorCall("pos", i, NoOperand, pos(numpy, heap[i].obj))
Abs == \E i \in Live :
    OperatorCall("abs", i, NoOperand, abs(numpy, heap[i].obj))
\* strictEq: the numpy installed raises on a comparison of unequal shapes.
Eq == \E i \in Live, o \in Operands, strictEq \in BOOLEAN :
    OperatorCall("eq", i, o, eq(heap[i].obj, Resolve(o), strictEq))
And == \E i \in Live, o \in Operands :
    OperatorCall("and", i, o, and(numpy, heap[i].obj, Resolve(o)))

\* A number or an exception as the outcome of a call.
RetVal(v) == IF v.k = "raise" THEN Raised(v.exc) ELSE RetNum(v)

ChiSquared == \E i \in Live, j \in Live :
    OperatorCall("chi_squared", i, [isValue |-> TRUE, id |-> j, c |-> Lit(0)],
                 RetVal(chi_squared(numpy, heap[i].obj, heap[j].obj)))
ChiSquaredDof == \E i \in Live, j \in Live :
    OperatorCall("chi_squared_dof", i, [isValue |-> TRUE, id |-> j, c |-> Lit(0)],
                 RetVal(chi_squared_dof(numpy, heap[i].obj, heap[j].obj)))

\* The read accessors of the class.
value(self) == RetNum(self.value)
error(self) == RetNum(self.error)
percent_error(self) == RetNum(self.percent_error)
err(self) == RetNum(self.error)
\* val reads self._val, an attribute no method assigns.
val(self) == Raised("AttributeError")
percent(self) == RetNum(self.percent_error)
pc(self) == RetNum(self.percent_error)

GetValue == \E i \in Live : OperatorCall("value", i, NoOperand, value(heap[i].obj))
GetError == \E i \in Live : OperatorCall("error", i, NoOperand, error(heap[i].obj))
GetPercentError == \E i \in Live :
    OperatorCall("percent_error", i, NoOperand, percent_error(heap[i].obj))
GetErr == \E i \in Live : OperatorCall("err", i, NoOperand, err(heap[i].obj))
GetVal == \E i \in Live : OperatorCall("val", i, NoOperand, val(heap[i].obj))
GetPercent == \E i \in Live :
    OperatorCall("percent", i, NoOperand, percent(heap[i].obj))
GetPc == \E i \in Live : OperatorCall("pc", i, NoOperand, pc(heap[i].obj))

\* The caller has read the outcome of the call and goes on.
Return ==
    /\ last.op # "idle"
    /\ last' = Idle
    /\ UNCHANGED << numpy, heap >>

ConstructScalar == \E i \in Ids, v \in Scalars, e \in Scalars : Construct(i, v, e)
ConstructArray == \E i \in Ids, v \in Arrays, e \in Arrays \cup Scalars :
    Construct(i, v, e)
SetValueStep == \E i \in Live : \E v \in SetterInputs(i) : SetValue(i, v)
SetErrorStep == \E i \in Live : \E e \in SetterInputs(i) : SetError(i, e)

Next ==
    \/ ConstructScalar \/ ConstructArray \/ SetValueStep \/ SetErrorStep
    \/ Add \/ RAdd \/ Sub \/ Mul \/ RMul \/ TrueDiv \/ FloorDiv \/ Pow
    \/ Neg \/ Pos \/ Abs \/ Eq \/ And
    \/ ChiSquared \/ ChiSquaredDof
    \/ GetValue \/ GetError \/ GetPercentError \/ GetErr \/ GetVal
    \/ GetPercent \/ GetPc
    \/ Return

Spec == Init /\ [][Next]_vars

\* ------------------------------------------------------------- properties
Self == heap[last.self].obj
Other == heap[last.oid].obj
OperatorOps ==
    {"add", "radd", "sub", "mul", "rmul", "truediv", "floordiv", "pow",
     "neg", "pos", "abs", "eq", "and"}
IsNum(v) == v.k = "num"
NonZero(v) == v.k = "num" /\ ~IsZero(v.s)
Positive(v) == v.k = "num" /\ v.s.t = "fin" /\ v.s.sg > 0

\* C1: in every reachable state, also after a setter call that raised, the
\* stored percent_error of every Value equals error / value * 100 computed
\* from the stored value and error.
C1_PercentErrorConsistent ==
    \A i \in Live :
        heap[i].obj.percent_error = do_percent(heap[i].obj.error, heap[i].obj.value)

\* C2: an array Value always has len(value) == len(error): a construction
\* with an array value and an error that is no array of the same length
\* fails, and a setter call whose new array has another length than the other
\* stored field raises and leaves every stored field as it was.
C2_LengthsAgree ==
    \A i \in Live :
        heap[i].obj.is_array =>
            /\ heap[i].obj.value.k = "arr"
            /\ heap[i].obj.error.k = "arr"
            /\ Len(heap[i].obj.value.a) = Len(heap[i].obj.error.a)
C2_MismatchRejected ==
    /\ (last'.op = "init" /\ last'.a1.k = "arr"
        /\ (last'.a2.k # "arr" \/ Len(last'.a2.a) # Len(last'.a1.a)))
       => (last'.out.k = "raise" /\ heap' = heap)
    /\ (last'.op = "set_value" /\ heap[last'.self].obj.is_array
        /\ last'.a1.k = "arr"
        /\ Len(last'.a1.a) # Len(heap[last'.self].obj.error.a))
       => (last'.out.k = "raise" /\ heap' = heap)
    /\ (last'.op = "set_error" /\ heap[last'.self].obj.is_array
        /\ last'.a1.k = "arr"
        /\ Len(last'.a1.a) # Len(heap[last'.self].obj.value.a))
       => (last'.out.k = "raise" /\ heap' = heap)
C2_ArrayLengths == [](C2_LengthsAgree) /\ [][C2_MismatchRejected]_vars
\* A two-element array Value has just refused a one-element error.
C2_Witness ==
    /\ last.op = "set_error" /\ last.out.k = "raise"
    /\ last.a1.k = "arr" /\ Len(last.a1.a) = 1
    /\ Self.is_array /\ Len(Self.value.a) = 2 /\ Len(Self.error.a) = 2

\* C3: no operator (+, -, *, /, //, **, neg, pos, abs, ==, &) changes a field
\* of any held Value, whether it returns or raises, and the Value a
\* successful operator returns is none of the objects held before.
C3_OperatorStep ==
    last'.op \in OperatorOps =>
        /\ heap' = heap
        /\ last'.out.k = "value" => last'.ref \notin Ids
C3_OperandsUnchanged == [][C3_OperatorStep]_vars
\* x & y has returned a Value for two different held Values.
C3_Witness ==
    /\ last.op = "and" /\ last.out.k = "value"
    /\ last.oid \in Live /\ last.oid # last.self

\* C4: == on two Values never raises and answers true exactly when the
\* values are equal and the errors are equal; operands of different shape
\* compare false.
SameNumbers(a, b) ==
    /\ a.k = b.k
    /\ a.k = "num" => NumEq(a.s, b.s)
    /\ a.k = "arr" => /\ Len(a.a) = Len(b.a)
                      /\ \A i \in 1..Len(a.a) : NumEq(a.a[i], b.a[i])
C4_EqualityTotal ==
    (last.op = "eq" /\ last.oid \in Live) =>
        /\ last.out.k = "bool"
        /\ last.out.b = (SameNumbers(Self.value, Other.value)
                         /\ SameNumbers(Self.error, Other.error))

\* C5: for a Value a and a plain number c, a + c and a - c return a Value
\* with value a.value + c (a.value - c) and error a.error.
C5_ConstantShift ==
    /\ (last.op = "add" /\ last.oid = 0) =>
          /\ last.out.k = "value"
          /\ last.out.obj.value = VAdd(Self.value, last.a1)
          /\ last.out.obj.error = Self.error
    /\ (last.op = "sub" /\ last.oid = 0) =>
          /\ last.out.k = "value"
          /\ last.out.obj.value = VSub(Self.value, last.a1)
          /\ last.out.obj.error = Self.error

\* C6: for a Value a and a plain number c, c + a gives what a + c gives and
\* c * a gives what a * c gives, in value and in error.
C6_ConstantCommutes ==
    /\ last.op = "radd" => last.out = add(numpy, Self, Constant(last.a1))
    /\ last.op = "rmul" => last.out = mul(numpy, Self, Constant(last.a1))
\* c * a has returned a Value for a constant other than 0 and 1.
C6_Witness ==
    /\ last.op = "rmul" /\ last.out.k = "value"
    /\ last.a1 = Lit(0 - 1) /\ ~IsZero(Self.error.s)

\* C7: for Values a, b with non-zero values, a * b has value
\* a.value * b.value and error |a.value * b.value| *
\* sqrt((a.error / a.value)^2 + (b.error / b.value)^2), which is not negative.
VAbs(a) ==
    IF a.k = "num" THEN Scalar(IF a.s.sg < 0 THEN NNeg(a.s) ELSE a.s)
    ELSE Array([i \in 1..Len(a.a) |-> IF a.a[i].sg < 0 THEN NNeg(a.a[i]) ELSE a.a[i]])
C7_ProductError ==
    (last.op = "mul" /\ last.oid \in Live
     /\ NonZero(Self.value) /\ NonZero(Other.value)
     /\ IsNum(Self.error) /\ IsNum(Other.error)) =>
        /\ last.out.k = "value"
        /\ last.out.obj.value = VMul(Self.value, Other.value)
        /\ last.out.obj.error =
              VMul(VAbs(VMul(Self.value, Other.value)),
                   Quadrature(numpy, VDiv(Self.error, Self.value),
                              VDiv(Other.error, Other.value)))
        /\ last.out.obj.error.s.sg >= 0

\* C8: x & y has value (w_x * x.value + w_y * y.value) / (w_x + w_y) and
\* error sqrt(1 / (w_x + w_y)) with w = 1 / error^2; for x with error e > 0,
\* x & x has the value of x and an error whose square is e^2 / 2.
C8_WeightedMean ==
    (last.op = "and" /\ last.oid \in Live
     /\ IsNum(Self.value) /\ IsNum(Other.value)
     /\ NonZero(Self.error) /\ NonZero(Other.error)) =>
        LET wx == VDiv(Lit(1), VSqr(Self.error))
            wy == VDiv(Lit(1), VSqr(Other.error))
        IN  /\ last.out.k = "value"
            /\ SameNumbers(last.out.obj.value,
                           VDiv(VAdd(VMul(wx, Self.value), VMul(wy, Other.value)),
                                VAdd(wx, wy)))
            /\ SameNumbers(last.out.obj.error,
                           VSqrt(numpy, VDiv(Lit(1), VAdd(wx, wy))))
            /\ (last.oid = last.self /\ Positive(Self.error)) =>
                  /\ SameNumbers(last.out.obj.value, Self.value)
                  /\ SameNumbers(VSqr(last.out.obj.error),
                                 VDiv(VSqr(Self.error), Lit(2)))

\* C9: chi_squared(a, b) of two scalar Values returns the single term
\* (1 - r.value)^2 / r.error^2 of r = a / b, and chi_squared_dof(a, b)
\* returns that number divided by 1.
C9_Term ==
    LET r == truediv(numpy, Self, ValueOperand(Other))
    IN  VDiv(VSqr(VSub(Lit(1), r.obj.value)), VSqr(r.obj.error))
C9_ChiSquaredScalar ==
    (last.op \in {"chi_squared", "chi_squared_dof"} /\ last.oid \in Live
     /\ ~Self.is_array /\ ~Other.is_array
     /\ truediv(numpy, Self, ValueOperand(Other)).k = "value"
     /\ C9_Term.k = "num") =>
        /\ last.out.k = "num"
        /\ SameNumbers(last.out.res, C9_Term)

\* C10: each alias accessor returns what its canonical accessor returns,
\* without failing: val as value, err as error, percent and pc as
\* percent_error.
C10_Aliases ==
    /\ last.op = "val" => last.out = value(Self)
    /\ last.op = "err" => last.out = error(Self)
    /\ last.op = "percent" => last.out = percent_error(Self)
    /\ last.op = "pc" => last.out = percent_error(Self)

====
